---- MODULE Spec2Model ----
(***************************************************************************)
(* Model of the automated trading bot: src/config.py (Config, validate)    *)
(* and src/trading_bot.py (TradingBot: symbol selection, trade cycle,      *)
(* position monitor, run loop).                                            *)
(*                                                                         *)
(* Units.  The program computes in floats; the model computes in exact     *)
(* integers.  Money (pot, prices, results) is in cents, and every price    *)
(* the gateway reports is a whole number of dollars (a multiple of 100     *)
(* cents), so that entry_price * (1 -/+ pct) is exact.  STOP_LOSS_PCT and  *)
(* TAKE_PROFIT_PCT are in percent: 10 stands for 0.10, 100 for 1.0.        *)
(* Float rounding is therefore outside the model.                          *)
(***************************************************************************)
EXTENDS Integers, Sequences, FiniteSets

(***************************************************************************)
(* Bounds of the model.                                                    *)
(***************************************************************************)
\* total number of get_current_price calls in one run of the process
MaxReads == 4
\* number of assets under study in a listing the selector is run against
MaxAssets == 3

(***************************************************************************)
(* Values.                                                                 *)
(***************************************************************************)
\* get_current_price's "return None" (a failed read); prices are >= 0
None == -1
\* get_most_traded_stock's "return None" / top_symbol = None
NoSymbol == "None"

KEY_PLACEHOLDER    == "YOUR_ALPACA_API_KEY_HERE"
SECRET_PLACEHOLDER == "YOUR_ALPACA_SECRET_KEY_HERE"

\* the prefix of the asset list that get_most_traded_stock scans
ScanLimit == 100

\* prices (cents) the Market Data Gateway may report as the latest trade
Prices == {0, 4400, 4500, 4800, 5000, 5200, 5500, 5600}
\* what one get_current_price call may return
PriceReads == Prices \cup {None}

(***************************************************************************)
(* Configuration (src/config.py).                                          *)
(***************************************************************************)
\* the environments the process may be started in: Config's class attributes
Configs ==
    [API_KEY        : {KEY_PLACEHOLDER, "key"},
     API_SECRET     : {SECRET_PLACEHOLDER, "secret"},
     INITIAL_POT    : {-100, 0, 100000},
     PROFIT_TARGET  : {-100, 0, 20000},
     STOP_LOSS_PCT  : {-10, 0, 10, 20, 100, 150},
     TAKE_PROFIT_PCT: {-10, 0, 10, 100, 150},
     CHECK_INTERVAL : {-1, 0, 30},
     TRADE_INTERVAL : {-1, 60},
     MAX_CONSECUTIVE_LOSSES : {1},
     MIN_STOCK_PRICE : {4500},
     MAX_STOCK_PRICE : {5500}]

\* validate with the percentage ranges closed at 1.0
validate_InclusiveBounds(c) ==
    IF c.API_KEY = KEY_PLACEHOLDER THEN "api_key"
    ELSE IF c.API_SECRET = SECRET_PLACEHOLDER THEN "api_secret"
    ELSE IF c.INITIAL_POT <= 0 THEN "initial_pot"
    ELSE IF c.PROFIT_TARGET <= 0 THEN "profit_target"
    ELSE IF ~(0 < c.STOP_LOSS_PCT /\ c.STOP_LOSS_PCT <= 100) THEN "stop_loss_pct"
    ELSE IF ~(0 < c.TAKE_PROFIT_PCT /\ c.TAKE_PROFIT_PCT <= 100) THEN "take_profit_pct"
    ELSE IF c.CHECK_INTERVAL <= 0 THEN "check_interval"
    ELSE "ok"

\* Config.validate: the ValueError it raises, "ok" if it returns
validate(c) ==
    IF c.API_KEY = KEY_PLACEHOLDER THEN "api_key"
    ELSE IF c.API_SECRET = SECRET_PLACEHOLDER THEN "api_secret"
    ELSE IF c.INITIAL_POT <= 0 THEN "initial_pot"
    ELSE IF c.PROFIT_TARGET <= 0 THEN "profit_target"
    ELSE IF ~(0 < c.STOP_LOSS_PCT /\ c.STOP_LOSS_PCT < 100) THEN "stop_loss_pct"
    ELSE IF ~(0 < c.TAKE_PROFIT_PCT /\ c.TAKE_PROFIT_PCT < 100) THEN "take_profit_pct"
    ELSE IF c.CHECK_INTERVAL <= 0 THEN "check_interval"
    ELSE "ok"

(***************************************************************************)
(* Symbol selection (TradingBot.get_most_traded_stock).                    *)
(***************************************************************************)
\* an asset as the gateway lists it, with what get_barset answers for it:
\* bar = "ok" (a bar with volume v), "absent" (symbol not in the barset),
\* "error" (get_barset, or indexing the bar, raises)
Asset(s, t, sh, b, v) == [symbol |-> s, tradable |-> t, shortable |-> sh, bar |-> b, v |-> v]

\* the markets the selector is run against: list_ok = FALSE is list_assets raising
Markets ==
    { [list_ok |-> FALSE, assets |-> << >>],
      [list_ok |-> TRUE,  assets |-> << >>],
      [list_ok |-> TRUE,  assets |-> << Asset("AAA", TRUE, FALSE, "ok", 9) >>],
      [list_ok |-> TRUE,  assets |-> << Asset("AAA", TRUE, TRUE, "ok", 5) >>],
      [list_ok |-> TRUE,  assets |-> << Asset("AAA", TRUE, TRUE, "error", 0),
                                        Asset("BBB", TRUE, TRUE, "ok", 0) >>],
      [list_ok |-> TRUE,  assets |-> << Asset("AAA", TRUE, TRUE, "ok", 5),
                                        Asset("BBB", TRUE, TRUE, "ok", 7) >>] }

\* no market recorded: Spec draws a market afresh at every selection
NoMarket == [list_ok |-> FALSE, assets |-> << >>]

\* the scan without the [:100] slice
Prefix_All(assets) == assets

\* assets[:100]
Prefix(assets) == SubSeq(assets, 1, IF Len(assets) < ScanLimit THEN Len(assets) ELSE ScanLimit)

\* the comparison of line 74 as ">=": among equal volumes the last one wins
RECURSIVE ScanAssets_LastWins(_, _, _, _)
ScanAssets_LastWins(assets, i, max_volume, top_symbol) ==
    IF i > Len(assets) THEN top_symbol
    ELSE LET a == assets[i] IN
         IF ~a.tradable \/ ~a.shortable
           THEN ScanAssets_LastWins(assets, i + 1, max_volume, top_symbol)
         ELSE IF a.bar = "ok" /\ a.v >= max_volume
           THEN ScanAssets_LastWins(assets, i + 1, a.v, a.symbol)
         ELSE ScanAssets_LastWins(assets, i + 1, max_volume, top_symbol)

\* the for loop of lines 64-77 from index i on, with the loop's two variables
RECURSIVE ScanAssets(_, _, _, _)
ScanAssets(assets, i, max_volume, top_symbol) ==
    IF i > Len(assets) THEN top_symbol
    ELSE LET a == assets[i] IN
         IF ~a.tradable \/ ~a.shortable
           THEN ScanAssets(assets, i + 1, max_volume, top_symbol)
         ELSE IF a.bar = "ok" /\ a.v > max_volume
           THEN ScanAssets(assets, i + 1, a.v, a.symbol)
         ELSE ScanAssets(assets, i + 1, max_volume, top_symbol)

get_most_traded_stock(m) ==
    IF ~m.list_ok THEN NoSymbol
    ELSE ScanAssets(Prefix(m.assets), 1, 0, NoSymbol)

(***************************************************************************)
(* Position sizing (execute_trade_cycle, lines 190-198).                   *)
(***************************************************************************)
\* Python's int(): truncation toward zero of a / b, b > 0
IntTrunc(a, b) == IF a >= 0 THEN a \div b ELSE -((-a) \div b)

\* round() in place of int(): to the nearest share
Quantity_Rounded(p, price) == IntTrunc(2 * p + price, 2 * price)

\* max(1, ...): never less than one share
Quantity_AtLeastOne(p, price) == IF IntTrunc(p, price) < 1 THEN 1 ELSE IntTrunc(p, price)

Quantity(p, price) == IntTrunc(p, price)

\* the stop-loss threshold with the sign of the percentage wrong
StopLossPrice_Above(price, pct) == (price * (100 + pct)) \div 100

\* entry_price * (1 - STOP_LOSS_PCT), exact because prices are multiples of 100
StopLossPrice(price, pct) == (price * (100 - pct)) \div 100

\* entry_price * (1 + TAKE_PROFIT_PCT)
TakeProfitPrice(price, pct) == (price * (100 + pct)) \div 100

(***************************************************************************)
(* State.                                                                  *)
(***************************************************************************)
VARIABLES
    pc,                 \* where the single thread of control stands
    config,             \* the Config the process was started with
    pot,                \* TradingBot.pot
    total_profit,       \* TradingBot.total_profit
    trades_completed,   \* TradingBot.trades_completed
    symbol,             \* execute_trade_cycle's locals ...
    entry_price,
    quantity,
    stop_loss_price,
    take_profit_price,
    current_price,      \* monitor_position's current_price
    result,             \* the TradeOutcome the Monitor returned: P&L ...
    exit_type,          \* ... and exit tag
    success,            \* run's success = execute_trade_cycle()
    abort_reason,       \* which error the last aborted cycle logged
    stop_reason,        \* why the process ended
    \* the gateways and the observer
    orders,             \* orders submitted in the current cycle, in order
    open_lots,          \* accepted buys whose shares have not been sold
    seen,               \* prices the Monitor has read in the current cycle
    n_reads,            \* get_current_price calls so far
    cycles_ok,          \* cycles that have returned True
    acct0,              \* <<pot, total_profit, trades_completed>> at cycle start
    gateway_used,       \* some gateway operation has been called
    consecutive_losses, \* stop-loss cycles in a row up to now
    market              \* the market the selector is checked against (SpecSelect)

vars == <<pc, config, pot, total_profit, trades_completed, symbol, entry_price,
          quantity, stop_loss_price, take_profit_price, current_price, result,
          exit_type, success, abort_reason, stop_reason, orders, open_lots,
          seen, n_reads, cycles_ok, acct0, gateway_used, consecutive_losses,
          market>>

account == <<pot, total_profit, trades_completed>>
locals  == <<symbol, entry_price, quantity, stop_loss_price, take_profit_price,
             current_price, result, exit_type>>
observer == <<orders, open_lots, seen, n_reads, cycles_ok, acct0, gateway_used,
              consecutive_losses, market>>

Init ==
    /\ pc = "main"
    /\ config \in Configs
    /\ pot = 0 /\ total_profit = 0 /\ trades_completed = 0
    /\ symbol = NoSymbol /\ entry_price = None /\ quantity = 0
    /\ stop_loss_price = 0 /\ take_profit_price = 0
    /\ current_price = None /\ result = 0 /\ exit_type = "none"
    /\ success = FALSE /\ abort_reason = "none" /\ stop_reason = "none"
    /\ orders = << >> /\ open_lots = 0 /\ seen = << >> /\ n_reads = 0
    /\ cycles_ok = 0 /\ acct0 = <<0, 0, 0>> /\ gateway_used = FALSE
    /\ consecutive_losses = 0
    /\ market = NoMarket

(***************************************************************************)
(* Process entry (trading_bot.py lines 272-278) and TradingBot.__init__.   *)
(***************************************************************************)
\* config = Config(); bot = TradingBot(config); bot.run() up to the while test
Main ==
    /\ pc = "main"
    /\ IF validate(config) # "ok"
         THEN /\ pc' = "config_error"
              /\ stop_reason' = validate(config)
              /\ UNCHANGED account
         ELSE /\ pc' = "loop_test"
              /\ pot' = config.INITIAL_POT
              /\ total_profit' = 0
              /\ trades_completed' = 0
              /\ UNCHANGED stop_reason
    /\ UNCHANGED <<config, locals, success, abort_reason, observer>>

(***************************************************************************)
(* TradingBot.run (lines 243-270).                                         *)
(***************************************************************************)
\* the while test with MAX_CONSECUTIVE_LOSSES enforced: the loop ends after
\* that many stop-loss cycles in a row
LoopTest_PauseAfterLosses ==
    /\ pc = "loop_test"
    /\ IF /\ total_profit < config.PROFIT_TARGET
          /\ consecutive_losses < config.MAX_CONSECUTIVE_LOSSES
         THEN pc' = "select" /\ UNCHANGED stop_reason
         ELSE pc' = "stopped" /\ stop_reason' = "loop_exit"
    /\ UNCHANGED <<config, account, locals, success, abort_reason, observer>>

\* line 243: while self.total_profit < self.config.PROFIT_TARGET
LoopTest ==
    /\ pc = "loop_test"
    /\ IF total_profit < config.PROFIT_TARGET
         THEN pc' = "select" /\ UNCHANGED stop_reason
         ELSE pc' = "stopped" /\ stop_reason' = "loop_exit"
    /\ UNCHANGED <<config, account, locals, success, abort_reason, observer>>

\* run without the test of line 253: it stops after any successful cycle
CycleReturn_StopOnAnySuccess ==
    /\ pc = "cycle_ret"
    /\ IF ~success
         THEN pc' = "cooldown" /\ UNCHANGED stop_reason
         ELSE pc' = "stopped" /\ stop_reason' = "target"
    /\ UNCHANGED <<config, account, locals, success, abort_reason, observer>>

\* run with break in place of continue at line 250: a failed cycle ends the loop
CycleReturn_BreakOnFailure ==
    /\ pc = "cycle_ret"
    /\ IF ~success
         THEN pc' = "stopped" /\ stop_reason' = "cycle_failed"
         ELSE IF total_profit >= config.PROFIT_TARGET
                THEN pc' = "stopped" /\ stop_reason' = "target"
                ELSE pc' = "trade_wait" /\ UNCHANGED stop_reason
    /\ UNCHANGED <<config, account, locals, success, abort_reason, observer>>

\* lines 245-263: what run does with the cycle's return value
CycleReturn ==
    /\ pc = "cycle_ret"
    /\ IF ~success
         THEN pc' = "cooldown" /\ UNCHANGED stop_reason
         ELSE IF total_profit >= config.PROFIT_TARGET
                THEN pc' = "stopped" /\ stop_reason' = "target"
                ELSE pc' = "trade_wait" /\ UNCHANGED stop_reason
    /\ UNCHANGED <<config, account, locals, success, abort_reason, observer>>

\* lines 249-250: time.sleep(60); continue
Cooldown ==
    /\ pc = "cooldown"
    /\ pc' = "loop_test"
    /\ UNCHANGED <<config, account, locals, success, abort_reason, stop_reason, observer>>

\* run without the "except Exception" clause: the ValueError ends the loop
TradeWait_Uncaught ==
    /\ pc = "trade_wait"
    /\ pc' = IF config.TRADE_INTERVAL < 0 THEN "stopped" ELSE "loop_test"
    /\ stop_reason' = IF config.TRADE_INTERVAL < 0 THEN "ValueError" ELSE stop_reason
    /\ UNCHANGED <<config, account, locals, success, abort_reason, observer>>

\* line 263: time.sleep(self.config.TRADE_INTERVAL).  TRADE_INTERVAL is not
\* validated; time.sleep raises ValueError for a negative length, which
\* run's "except Exception" (line 268) catches
TradeWait ==
    /\ pc = "trade_wait"
    /\ pc' = IF config.TRADE_INTERVAL < 0 THEN "error_cooldown" ELSE "loop_test"
    /\ stop_reason' = stop_reason
    /\ UNCHANGED <<config, account, locals, success, abort_reason, observer>>

\* lines 268-270: logger.error; time.sleep(60); on to the while test
ErrorCooldown ==
    /\ pc = "error_cooldown"
    /\ pc' = "loop_test"
    /\ UNCHANGED <<config, account, locals, success, abort_reason, stop_reason, observer>>

\* the positions of the control thread inside run's try block
InTry == {"select", "entry", "buy", "monitor", "sl_sell", "sl_return",
          "tp_sell", "tp_return", "book", "cycle_ret", "cooldown", "trade_wait"}

\* lines 265-267: KeyboardInterrupt raised inside the try block; break
Interrupt ==
    /\ pc \in InTry
    /\ pc' = "stopped"
    /\ stop_reason' = "interrupt"
    /\ UNCHANGED <<config, account, locals, success, abort_reason, observer>>

\* KeyboardInterrupt raised while line 243 is evaluated, outside the try block:
\* no handler; it leaves run and ends the process
InterruptOutsideTry ==
    /\ pc = "loop_test"
    /\ pc' = "killed"
    /\ stop_reason' = "KeyboardInterrupt"
    /\ UNCHANGED <<config, account, locals, success, abort_reason, observer>>

\* KeyboardInterrupt raised during the time.sleep(60) of line 270: an except
\* clause is not covered by the try's other handlers; it leaves run
InterruptInHandler ==
    /\ pc = "error_cooldown"
    /\ pc' = "killed"
    /\ stop_reason' = "KeyboardInterrupt"
    /\ UNCHANGED <<config, account, locals, success, abort_reason, observer>>

(***************************************************************************)
(* TradingBot.execute_trade_cycle (lines 168-229).                         *)
(***************************************************************************)
\* return False, with the error the cycle logged
Abort(reason) ==
    /\ pc' = "cycle_ret"
    /\ success' = FALSE
    /\ abort_reason' = reason

\* lines 172-182: symbol = self.get_most_traded_stock(); if not symbol: return False
SelectSymbol ==
    /\ pc = "select"
    /\ \E m \in Markets :
         /\ symbol' = get_most_traded_stock(m)
         /\ IF symbol' = NoSymbol
              THEN Abort("NoSymbol")
              ELSE pc' = "entry" /\ UNCHANGED <<success, abort_reason>>
    /\ entry_price' = None /\ quantity' = 0
    /\ stop_loss_price' = 0 /\ take_profit_price' = 0
    /\ current_price' = None /\ result' = 0 /\ exit_type' = "none"
    /\ orders' = << >> /\ seen' = << >>
    /\ acct0' = account
    /\ gateway_used' = TRUE
    /\ UNCHANGED <<config, account, stop_reason, open_lots, n_reads, cycles_ok,
                   consecutive_losses, market>>

\* lines 185-198: entry price, quantity, thresholds
ReadEntryPrice ==
    /\ pc = "entry"
    /\ n_reads < MaxReads
    /\ \E p \in PriceReads :
         /\ entry_price' = p
         /\ IF p = None \/ p = 0
              THEN /\ Abort("NoPrice")
                   /\ UNCHANGED <<quantity, stop_loss_price, take_profit_price>>
              ELSE /\ quantity' = Quantity(pot, p)
                   /\ IF quantity' = 0
                        THEN /\ Abort("InsufficientFunds")
                             /\ UNCHANGED <<stop_loss_price, take_profit_price>>
                        ELSE /\ stop_loss_price' = StopLossPrice(p, config.STOP_LOSS_PCT)
                             /\ take_profit_price' = TakeProfitPrice(p, config.TAKE_PROFIT_PCT)
                             /\ pc' = "buy"
                             /\ UNCHANGED <<success, abort_reason>>
    /\ n_reads' = n_reads + 1
    /\ UNCHANGED <<config, account, symbol, current_price, result, exit_type,
                   stop_reason, orders, open_lots, seen, cycles_ok, acct0, gateway_used,
                   consecutive_losses, market>>

Order(side, ok) == [side |-> side, symbol |-> symbol, qty |-> quantity, ok |-> ok]

\* execute_trade_cycle without the test of line 208: it monitors whatever
\* place_buy_order returned
PlaceBuy_Unchecked ==
    /\ pc = "buy"
    /\ \E ok \in BOOLEAN :
         /\ orders' = Append(orders, Order("buy", ok))
         /\ open_lots' = IF ok THEN open_lots + 1 ELSE open_lots
    /\ pc' = "monitor"
    /\ UNCHANGED <<config, account, locals, success, abort_reason, stop_reason,
                   seen, n_reads, cycles_ok, acct0, gateway_used,
                   consecutive_losses, market>>

\* lines 207-212 with place_buy_order (97-113): the gateway accepts the order,
\* or submit_order raises and place_buy_order returns None
PlaceBuy ==
    /\ pc = "buy"
    /\ \E ok \in BOOLEAN :
         /\ orders' = Append(orders, Order("buy", ok))
         /\ IF ok
              THEN /\ open_lots' = open_lots + 1
                   /\ pc' = "monitor"
                   /\ UNCHANGED <<success, abort_reason>>
              ELSE /\ Abort("BuyFailed")
                   /\ UNCHANGED open_lots
    /\ UNCHANGED <<config, account, locals, stop_reason, seen, n_reads,
                   cycles_ok, acct0, gateway_used,
                   consecutive_losses, market>>

(***************************************************************************)
(* TradingBot.monitor_position (lines 133-166).                            *)
(***************************************************************************)
\* the stop-loss test with < in place of <=
MonitorBranch_StrictStop(p, sl, tp) ==
    IF p = None THEN "monitor"
    ELSE IF p < sl THEN "sl_sell"
    ELSE IF p >= tp THEN "tp_sell"
    ELSE "monitor"

\* a failed read taken for a price of 0.0: the stop-loss fires
MonitorBranch_FailedReadSells(p, sl, tp) ==
    IF p = None THEN "sl_sell"
    ELSE IF p <= sl THEN "sl_sell"
    ELSE IF p >= tp THEN "tp_sell"
    ELSE "monitor"

\* lines 144-162: where one poll that read price p goes
MonitorBranch(p, sl, tp) ==
    IF p = None THEN "monitor"
    ELSE IF p <= sl THEN "sl_sell"
    ELSE IF p >= tp THEN "tp_sell"
    ELSE "monitor"

\* one iteration of the while True loop up to the sell or the sleep
MonitorPoll ==
    /\ pc = "monitor"
    /\ n_reads < MaxReads
    /\ \E p \in PriceReads :
         /\ current_price' = p
         /\ seen' = Append(seen, p)
         /\ pc' = MonitorBranch(p, stop_loss_price, take_profit_price)
    /\ n_reads' = n_reads + 1
    /\ UNCHANGED <<config, account, symbol, entry_price, quantity, stop_loss_price,
                   take_profit_price, result, exit_type, success, abort_reason,
                   stop_reason, orders, open_lots, cycles_ok, acct0, gateway_used,
                   consecutive_losses, market>>

\* a Monitor that submits the sell again when it failed
PlaceSell_RetryOnFailure ==
    /\ pc \in {"sl_sell", "tp_sell"}
    /\ \E ok \in BOOLEAN :
         /\ orders' = Append(orders, Order("sell", ok))
         /\ open_lots' = IF ok THEN open_lots - 1 ELSE open_lots
         /\ pc' = IF ~ok THEN pc ELSE IF pc = "sl_sell" THEN "sl_return" ELSE "tp_return"
    /\ UNCHANGED <<config, account, locals, success, abort_reason, stop_reason,
                   seen, n_reads, cycles_ok, acct0, gateway_used,
                   consecutive_losses, market>>

\* lines 151 and 158 with place_sell_order (115-131): the gateway accepts the
\* order, or submit_order raises and place_sell_order returns None, which
\* monitor_position does not look at
PlaceSell ==
    /\ pc \in {"sl_sell", "tp_sell"}
    /\ \E ok \in BOOLEAN :
         /\ orders' = Append(orders, Order("sell", ok))
         /\ open_lots' = IF ok THEN open_lots - 1 ELSE open_lots
    /\ pc' = IF pc = "sl_sell" THEN "sl_return" ELSE "tp_return"
    /\ UNCHANGED <<config, account, locals, success, abort_reason, stop_reason,
                   seen, n_reads, cycles_ok, acct0, gateway_used,
                   consecutive_losses, market>>

\* the P&L of one share: the quantity forgotten
PnL_PerShare(price, entry, qty) == price - entry

\* lines 152-153 and 159-160: the signed P&L of the exit
PnL(price, entry, qty) == (price - entry) * qty

MonitorReturn ==
    /\ pc \in {"sl_return", "tp_return"}
    /\ result' = PnL(current_price, entry_price, quantity)
    /\ exit_type' = IF pc = "sl_return" THEN "stop_loss" ELSE "take_profit"
    /\ pc' = "book"
    /\ UNCHANGED <<config, account, symbol, entry_price, quantity, stop_loss_price,
                   take_profit_price, current_price, success, abort_reason,
                   stop_reason, observer>>

\* lines 219-229: bookkeeping, return True
BookTrade ==
    /\ pc = "book"
    /\ pot' = pot + result
    /\ total_profit' = total_profit + result
    /\ trades_completed' = trades_completed + 1
    /\ success' = TRUE
    /\ cycles_ok' = cycles_ok + 1
    /\ pc' = "cycle_ret"
    /\ consecutive_losses' = IF exit_type = "stop_loss"
                               THEN consecutive_losses + 1 ELSE 0
    /\ UNCHANGED <<config, locals, abort_reason, stop_reason,
                   orders, open_lots, seen, n_reads, acct0, gateway_used, market>>

Next ==
    \/ Main
    \/ LoopTest
    \/ SelectSymbol
    \/ ReadEntryPrice
    \/ PlaceBuy
    \/ MonitorPoll
    \/ PlaceSell
    \/ MonitorReturn
    \/ BookTrade
    \/ CycleReturn
    \/ Cooldown
    \/ TradeWait
    \/ ErrorCooldown
    \/ Interrupt
    \/ InterruptOutsideTry
    \/ InterruptInHandler

Spec == Init /\ [][Next]_vars

(***************************************************************************)
(* The selector on its own: one call of get_most_traded_stock against a    *)
(* recorded market, for the properties that relate its answer to what the  *)
(* gateway listed.                                                         *)
(***************************************************************************)
\* what the gateway can say about one listed asset: an eligible asset with a
\* bar of volume 0, 1 or 2, with no bar, or with a failing read; an asset that
\* is not shortable, or not tradable, with the largest volume of all
AssetKinds ==
    { [tradable |-> TRUE,  shortable |-> TRUE,  bar |-> "ok",     v |-> 0],
      [tradable |-> TRUE,  shortable |-> TRUE,  bar |-> "ok",     v |-> 1],
      [tradable |-> TRUE,  shortable |-> TRUE,  bar |-> "ok",     v |-> 2],
      [tradable |-> TRUE,  shortable |-> TRUE,  bar |-> "absent", v |-> 0],
      [tradable |-> TRUE,  shortable |-> TRUE,  bar |-> "error",  v |-> 0],
      [tradable |-> TRUE,  shortable |-> FALSE, bar |-> "ok",     v |-> 3],
      [tradable |-> FALSE, shortable |-> TRUE,  bar |-> "ok",     v |-> 3] }

\* the symbols of the assets under study, by position
SymbolNames == <<"AAA", "BBB", "CCC", "DDD", "EEE">>

\* an asset the scan passes over, to fill the front of the list
Filler == Asset("PAD", FALSE, FALSE, "ok", 9)

\* how many fillers come first: the assets under study start at position 1,
\* end at position 100, or straddle the end of the slice
Pads == {0, ScanLimit - MaxAssets, ScanLimit - 1}

\* the listing: pad fillers, then the assets of kinds k
Listing(pad, k) ==
    [i \in 1..(pad + Len(k)) |->
        IF i <= pad THEN Filler
        ELSE Asset(SymbolNames[i - pad], k[i - pad].tradable, k[i - pad].shortable,
                   k[i - pad].bar, k[i - pad].v)]

SelectMarkets ==
    {NoMarket} \cup
    { [list_ok |-> TRUE, assets |-> Listing(pad, k)] :
        pad \in Pads, k \in UNION { [1..n -> AssetKinds] : n \in 0..MaxAssets } }

InitSelect ==
    /\ pc = "select_fn"
    /\ market \in SelectMarkets
    /\ config = [API_KEY |-> "key", API_SECRET |-> "secret", INITIAL_POT |-> 100000,
                 PROFIT_TARGET |-> 20000, STOP_LOSS_PCT |-> 10, TAKE_PROFIT_PCT |-> 10,
                 CHECK_INTERVAL |-> 30, TRADE_INTERVAL |-> 60,
                 MAX_CONSECUTIVE_LOSSES |-> 1, MIN_STOCK_PRICE |-> 4500,
                 MAX_STOCK_PRICE |-> 5500]
    /\ pot = config.INITIAL_POT /\ total_profit = 0 /\ trades_completed = 0
    /\ symbol = NoSymbol /\ entry_price = None /\ quantity = 0
    /\ stop_loss_price = 0 /\ take_profit_price = 0
    /\ current_price = None /\ result = 0 /\ exit_type = "none"
    /\ success = FALSE /\ abort_reason = "none" /\ stop_reason = "none"
    /\ orders = << >> /\ open_lots = 0 /\ seen = << >> /\ n_reads = 0
    /\ cycles_ok = 0 /\ acct0 = <<0, 0, 0>> /\ gateway_used = FALSE
    /\ consecutive_losses = 0

\* line 179: symbol = self.get_most_traded_stock()
RunSelector ==
    /\ pc = "select_fn"
    /\ symbol' = get_most_traded_stock(market)
    /\ pc' = "select_done"
    /\ gateway_used' = TRUE
    /\ UNCHANGED <<config, account, entry_price, quantity, stop_loss_price,
                   take_profit_price, current_price, result, exit_type, success,
                   abort_reason, stop_reason, orders, open_lots, seen, n_reads,
                   cycles_ok, acct0, consecutive_losses, market>>

NextSelect == RunSelector

SpecSelect == InitSelect /\ [][NextSelect]_vars

(***************************************************************************)
(* Vocabulary of the properties.                                           *)
(***************************************************************************)
\* the Controller's states of spec section 4.5
Stopped  == pc \in {"stopped", "killed", "config_error"}
InCooldown == pc = "cooldown"
\* the run loop ended through its own exits (line 243 or line 260)
StoppedNormally == pc = "stopped" /\ stop_reason \in {"target", "loop_exit"}
\* the run loop ended through the KeyboardInterrupt handler
Interrupted == pc = "stopped" /\ stop_reason = "interrupt"
\* execute_trade_cycle has returned and run has not yet looked at the value
CycleSucceeded == pc = "cycle_ret" /\ success
CycleAborted   == pc = "cycle_ret" /\ ~success

LastSeen == seen[Len(seen)]
\* price p breaches a threshold of the open position
Breach(p) == p # None /\ (p <= stop_loss_price \/ p >= take_profit_price)
SellSubmitted == \E i \in 1..Len(orders) : orders[i].side = "sell"
SellFailed == \E i \in 1..Len(orders) : orders[i].side = "sell" /\ ~orders[i].ok
ConfigValid(c) ==
    /\ c.API_KEY # KEY_PLACEHOLDER /\ c.API_SECRET # SECRET_PLACEHOLDER
    /\ c.INITIAL_POT > 0 /\ c.PROFIT_TARGET > 0
    /\ c.STOP_LOSS_PCT \in 1..99 /\ c.TAKE_PROFIT_PCT \in 1..99
    /\ c.CHECK_INTERVAL > 0

(***************************************************************************)
(* C1: the run loop stops normally only when total_profit >= PROFIT_TARGET,*)
(* it does so right after the first successful cycle that reaches the      *)
(* target (the total before that cycle was below it, and no state in which *)
(* the loop goes on has the total at or above it), and trades_completed is *)
(* the number of cycles that have returned True.                           *)
(***************************************************************************)
C1_LoopTermination ==
    /\ StoppedNormally =>
         /\ total_profit >= config.PROFIT_TARGET
         /\ success
         /\ total_profit - result < config.PROFIT_TARGET
    /\ pc \in (InTry \cup {"loop_test"}) \ {"cycle_ret"} =>
         total_profit < config.PROFIT_TARGET
    /\ trades_completed = cycles_ok

\* stopped on the target after two trades, the first of which did not reach
\* it, with an aborted cycle in between or before
C1_Witness ==
    /\ StoppedNormally
    /\ trades_completed = 2
    /\ abort_reason # "none"

(***************************************************************************)
(* C2: a failed sell order aborts the cycle: the cycle in which the sell   *)
(* order failed returns False and leaves pot, total_profit and             *)
(* trades_completed as they were when it started.                          *)
(***************************************************************************)
C2_SellFailureAborts ==
    (pc = "cycle_ret" /\ SellFailed) => (~success /\ account = acct0)

(***************************************************************************)
(* C3: at most one open position: no buy order is about to be submitted    *)
(* while shares of an earlier accepted buy are unsold, and the gateway     *)
(* never holds two unsold lots.                                            *)
(***************************************************************************)
C3_SinglePosition ==
    /\ pc = "buy" => open_lots = 0
    /\ open_lots <= 1

(***************************************************************************)
(* C4: in every cycle the accepted buy order precedes the first monitoring *)
(* poll (so no poll happens in a cycle whose buy was not accepted), the    *)
(* sell order is submitted before the outcome is produced (after the sell  *)
(* there is a state with no outcome yet), and before the cycle returns.    *)
(***************************************************************************)
C4_Ordering ==
    /\ seen # << >> =>
         Len(orders) >= 1 /\ orders[1].side = "buy" /\ orders[1].ok
    /\ pc \in {"sl_sell", "tp_sell"} => ~SellSubmitted /\ exit_type = "none"
    /\ pc \in {"sl_return", "tp_return"} => SellSubmitted /\ exit_type = "none"
    /\ exit_type # "none" => SellSubmitted
    /\ CycleSucceeded => SellSubmitted /\ exit_type # "none"

\* a cycle returned its outcome after two polls
C4_Witness == CycleSucceeded /\ Len(seen) = 2 /\ Len(orders) = 2

(***************************************************************************)
(* C5: the Monitor exits at the first successfully read price that         *)
(* breaches a threshold: no read but the last one of a cycle breaches,     *)
(* the Monitor goes on polling only while no read breached, the exit is    *)
(* tagged stop_loss iff the breaching price is <= stop_loss_price, and the *)
(* outcome is computed from that price.                                    *)
(***************************************************************************)
C5_MonitorDeterminism ==
    /\ \A i \in 1..(Len(seen) - 1) : ~Breach(seen[i])
    /\ pc = "monitor" => \A i \in 1..Len(seen) : ~Breach(seen[i])
    /\ pc \in {"sl_sell", "sl_return", "tp_sell", "tp_return", "book"} =>
         seen # << >> /\ Breach(LastSeen)
    /\ pc \in {"sl_sell", "sl_return"} => LastSeen <= stop_loss_price
    /\ pc \in {"tp_sell", "tp_return"} => LastSeen > stop_loss_price
    /\ exit_type # "none" =>
         /\ seen # << >> /\ Breach(LastSeen)
         /\ exit_type = IF LastSeen <= stop_loss_price THEN "stop_loss" ELSE "take_profit"
         /\ result = (LastSeen - entry_price) * quantity

\* a take-profit exit on the third read, exactly at the threshold, after a
\* failed read and a read inside the band
C5_Witness ==
    /\ exit_type = "take_profit"
    /\ entry_price = 5000
    /\ seen = <<None, 4800, 5500>>

(***************************************************************************)
(* C6: a successful cycle has result = (exit price - entry price) *        *)
(* quantity, the exit price being the price that triggered the exit, and   *)
(* adds it to pot and total_profit and 1 to trades_completed; from pot     *)
(* 1000.00, entry 50.00 and both percentages 10, the reads 50, 48, 44 give *)
(* stop_loss, -120.00 and pot 880.00, and 50, 52, 56 give take_profit,     *)
(* 120.00, pot 1120.00 and total_profit 120.00.                            *)
(***************************************************************************)
C6_Bookkeeping ==
    /\ CycleSucceeded =>
         /\ seen # << >>
         /\ result = (LastSeen - entry_price) * quantity
         /\ pot = acct0[1] + result
         /\ total_profit = acct0[2] + result
         /\ trades_completed = acct0[3] + 1
    /\ ( /\ CycleSucceeded
         /\ acct0 = <<100000, 0, 0>>
         /\ config.STOP_LOSS_PCT = 10 /\ config.TAKE_PROFIT_PCT = 10
         /\ entry_price = 5000 ) =>
         /\ quantity = 20
         /\ seen = <<5000, 4800, 4400>> =>
              exit_type = "stop_loss" /\ result = -12000 /\ pot = 88000
         /\ seen = <<5000, 5200, 5600>> =>
              exit_type = "take_profit" /\ result = 12000 /\ pot = 112000
                /\ total_profit = 12000

\* the stop-loss scenario has run
C6_Witness ==
    /\ CycleSucceeded
    /\ acct0 = <<100000, 0, 0>>
    /\ config.STOP_LOSS_PCT = 10 /\ config.TAKE_PROFIT_PCT = 10
    /\ entry_price = 5000
    /\ seen = <<5000, 4800, 4400>>
    /\ pot = 88000

(***************************************************************************)
(* C7: once a cycle has read an entry price > 0, quantity is               *)
(* floor(pot / price) for the pot the cycle started with, it is 0 iff      *)
(* pot < price, and with quantity 0 the cycle has aborted as               *)
(* InsufficientFunds and has submitted no order; every order submitted is  *)
(* for that quantity.                                                      *)
(***************************************************************************)
C7_PositionSize ==
    entry_price > 0 =>
      /\ quantity * entry_price <= acct0[1]
      /\ acct0[1] < (quantity + 1) * entry_price
      /\ (quantity = 0) <=> (acct0[1] < entry_price)
      /\ quantity = 0 =>
           /\ orders = << >>
           /\ abort_reason = "InsufficientFunds"
           /\ ~success
           /\ pc \notin {"buy", "monitor", "sl_sell", "sl_return", "tp_sell",
                         "tp_return", "book"}
      /\ \A i \in 1..Len(orders) : orders[i].qty = quantity /\ quantity >= 1

\* an InsufficientFunds abort with money left in the pot
C7_Witness ==
    /\ CycleAborted
    /\ abort_reason = "InsufficientFunds"
    /\ entry_price > 0 /\ quantity = 0
    /\ pot > 0

(***************************************************************************)
(* C8: an aborted cycle (NoSymbol, NoPrice, InsufficientFunds, BuyFailed)  *)
(* returns with pot, total_profit and trades_completed as they were at its *)
(* start, and the Controller then goes to Cooldown, back to the loop test  *)
(* and into a new cycle, with the account untouched; only a                *)
(* KeyboardInterrupt takes it elsewhere.                                   *)
(***************************************************************************)
C8_AbortNonFatal ==
    [][ /\ (pc' = "cycle_ret" /\ ~success') =>
             /\ account' = acct0'
             /\ abort_reason' \in {"NoSymbol", "NoPrice", "InsufficientFunds", "BuyFailed"}
        /\ CycleAborted =>
             /\ pc' = "cooldown" \/ Interrupted'
             /\ account' = account
        /\ (InCooldown /\ ~success) =>
             /\ pc' = "loop_test" \/ Interrupted'
             /\ account' = account
        /\ (pc = "loop_test" /\ ~success /\ abort_reason # "none") =>
             /\ pc' = "select" \/ pc' = "killed"
             /\ account' = account
      ]_vars

\* a new cycle starts after a cycle that aborted on a rejected buy order
C8_Witness ==
    /\ pc = "select"
    /\ ~success
    /\ abort_reason = "BuyFailed"
    /\ trades_completed = 1

(***************************************************************************)
(* C9: a monitoring poll whose price read fails changes neither the        *)
(* account, nor the orders, nor the open position and its thresholds, and  *)
(* leaves the Monitor polling.                                             *)
(***************************************************************************)
C9_FailedPollNoOp ==
    [][ (pc = "monitor" /\ seen' = Append(seen, None)) =>
          /\ pc' = "monitor"
          /\ account' = account
          /\ orders' = orders /\ open_lots' = open_lots
          /\ <<symbol, entry_price, quantity, stop_loss_price, take_profit_price>>'
               = <<symbol, entry_price, quantity, stop_loss_price, take_profit_price>>
          /\ <<result, exit_type, success>>' = <<result, exit_type, success>>
      ]_vars

\* three failed reads in a row, the Monitor still polling
C9_Witness ==
    /\ pc = "monitor"
    /\ seen = <<None, None, None>>
    /\ open_lots = 1

(***************************************************************************)
(* C10: with a placeholder key or secret, INITIAL_POT <= 0,                *)
(* PROFIT_TARGET <= 0, a percentage outside (0, 1) or CHECK_INTERVAL <= 0, *)
(* construction fails and no gateway operation is ever called; with        *)
(* STOP_LOSS_PCT = 1.0 it fails, and with STOP_LOSS_PCT = 0.1 and the rest *)
(* valid it succeeds.                                                      *)
(***************************************************************************)
C10_ConfigValidation ==
    pc # "main" =>
      /\ ( \/ config.API_KEY = KEY_PLACEHOLDER
           \/ config.API_SECRET = SECRET_PLACEHOLDER
           \/ config.INITIAL_POT <= 0
           \/ config.PROFIT_TARGET <= 0
           \/ ~(0 < config.STOP_LOSS_PCT /\ config.STOP_LOSS_PCT < 100)
           \/ ~(0 < config.TAKE_PROFIT_PCT /\ config.TAKE_PROFIT_PCT < 100)
           \/ config.CHECK_INTERVAL <= 0 ) =>
           /\ pc = "config_error"
           /\ ~gateway_used /\ orders = << >> /\ n_reads = 0
      /\ config.STOP_LOSS_PCT = 100 => pc = "config_error"
      /\ ConfigValid([config EXCEPT !.STOP_LOSS_PCT = 10]) /\ config.STOP_LOSS_PCT = 10
           => pc # "config_error"

\* construction failed on STOP_LOSS_PCT = 1.0 alone
C10_Witness ==
    /\ pc = "config_error"
    /\ config.STOP_LOSS_PCT = 100
    /\ ConfigValid([config EXCEPT !.STOP_LOSS_PCT = 10])

(***************************************************************************)
(* C11: a KeyboardInterrupt arriving while the run loop is active always   *)
(* ends in the graceful stop of lines 265-267: it never leaves run         *)
(* uncaught.                                                               *)
(***************************************************************************)
C11_GracefulCancellation == pc # "killed"

(***************************************************************************)
(* C12: an exception raised inside an iteration of the loop is caught:     *)
(* the Controller sleeps the cooldown of line 270 with the account         *)
(* untouched, goes back to the while test and into a new cycle; the run    *)
(* loop ends only with total_profit >= PROFIT_TARGET or by a               *)
(* KeyboardInterrupt.                                                      *)
(***************************************************************************)
C12_ErrorNonFatal ==
    [][ /\ (pc = "trade_wait" /\ config.TRADE_INTERVAL < 0) =>
             pc' = "error_cooldown" \/ Interrupted'
        /\ pc = "error_cooldown" =>
             /\ pc' = "loop_test" \/ pc' = "killed"
             /\ account' = account
        /\ (pc = "loop_test" /\ total_profit < config.PROFIT_TARGET) =>
             pc' = "select" \/ pc' = "killed"
        /\ (pc \notin {"stopped", "killed"} /\ pc' \in {"stopped", "killed"}) =>
             \/ stop_reason' = "target" /\ total_profit' >= config.PROFIT_TARGET
             \/ stop_reason' \in {"interrupt", "KeyboardInterrupt"}
      ]_vars

\* a new cycle starts after the inter-trade sleep raised
C12_Witness ==
    /\ pc = "select"
    /\ config.TRADE_INTERVAL < 0
    /\ trades_completed = 1
    /\ success

(***************************************************************************)
(* C13 as claimed: a cancellation does not abort the monitoring: the       *)
(* Monitor leaves its poll loop only through a threshold breach.           *)
(***************************************************************************)
C13_MonitorNotAborted ==
    [][ pc = "monitor" => pc' \in {"monitor", "sl_sell", "tp_sell"} ]_vars

(***************************************************************************)
(* C13, what the code does: the Monitor leaves its poll loop through a     *)
(* threshold breach or through a KeyboardInterrupt, which stops the        *)
(* Controller at once: no sell order is submitted, the position stays open *)
(* and no outcome is produced or booked.                                   *)
(***************************************************************************)
C13_InterruptAbortsMonitor ==
    [][ pc = "monitor" =>
          \/ pc' \in {"monitor", "sl_sell", "tp_sell"}
          \/ /\ Interrupted'
             /\ orders' = orders /\ ~SellSubmitted'
             /\ open_lots' = open_lots /\ open_lots' >= 1
             /\ account' = account
             /\ exit_type' = "none"
      ]_vars

(***************************************************************************)
(* C14: a cycle submits at most one buy and then at most one sell; the     *)
(* sell follows an accepted buy and is for the same symbol and quantity;   *)
(* a cycle that returns an outcome has submitted both, and an aborted      *)
(* cycle has submitted no sell.                                            *)
(***************************************************************************)
C14_OrdersPerCycle ==
    /\ Len(orders) <= 2
    /\ Len(orders) >= 1 => orders[1].side = "buy"
    /\ Len(orders) = 2 =>
         /\ orders[2].side = "sell"
         /\ orders[1].ok
         /\ orders[2].symbol = orders[1].symbol
         /\ orders[2].qty = orders[1].qty
    /\ CycleSucceeded => Len(orders) = 2
    /\ CycleAborted => ~SellSubmitted

\* a completed cycle: 22 shares of BBB bought and sold
C14_Witness ==
    /\ CycleSucceeded
    /\ orders[1] = [side |-> "buy", symbol |-> "BBB", qty |-> 22, ok |-> TRUE]
    /\ orders[2] = [side |-> "sell", symbol |-> "BBB", qty |-> 22, ok |-> TRUE]

(***************************************************************************)
(* C15: pot exhaustion never ends the loop: a cycle that reads an entry    *)
(* price above the pot aborts as InsufficientFunds with no order and the   *)
(* account untouched, and from there the Controller goes to Cooldown, to   *)
(* the while test and into the next cycle, unless it is interrupted.       *)
(***************************************************************************)
C15_PotExhaustion ==
    [][ /\ (pc = "entry" /\ n_reads' = n_reads + 1 /\ entry_price' > pot) =>
             /\ pc' = "cycle_ret" /\ ~success'
             /\ abort_reason' = "InsufficientFunds"
             /\ orders' = << >>
             /\ account' = account
        /\ (~success /\ abort_reason = "InsufficientFunds") =>
             /\ pc = "cycle_ret" => pc' = "cooldown" \/ Interrupted'
             /\ pc = "cooldown"  => pc' = "loop_test" \/ Interrupted'
             /\ pc = "loop_test" => pc' = "select" \/ pc' = "killed"
             /\ pc \in {"cycle_ret", "cooldown", "loop_test"} => account' = account
      ]_vars

\* the pot is below every price and the next cycle starts all the same
C15_Witness ==
    /\ pc = "select"
    /\ ~success /\ abort_reason = "InsufficientFunds"
    /\ \A p \in Prices \ {0} : pot < p
    /\ total_profit < config.PROFIT_TARGET

(***************************************************************************)
(* C16: MAX_CONSECUTIVE_LOSSES, MIN_STOCK_PRICE and MAX_STOCK_PRICE do not *)
(* steer the control flow: with MAX_CONSECUTIVE_LOSSES stop-loss cycles in *)
(* a row behind it the Controller still goes from the wait to the while    *)
(* test and into the next cycle, and an entry price outside                *)
(* [MIN_STOCK_PRICE, MAX_STOCK_PRICE] that the pot affords leads to the    *)
(* buy order.                                                              *)
(***************************************************************************)
OutOfBand(p) == p < config.MIN_STOCK_PRICE \/ p > config.MAX_STOCK_PRICE

Inspected == IF market.list_ok
               THEN {i \in 1..Len(market.assets) : i <= ScanLimit} ELSE {}
Eligible(i) == market.assets[i].tradable /\ market.assets[i].shortable
\* the volume read of asset i succeeds, fails
HasReading(i) == Eligible(i) /\ market.assets[i].bar = "ok"
ReadFails(i)  == Eligible(i) /\ market.assets[i].bar = "error"
Volume(i) == market.assets[i].v

(***************************************************************************)
(* C17: a symbol that get_most_traded_stock returns is that of a tradable, *)
(* shortable asset among the first 100 listed whose volume read            *)
(* succeeded; its volume is the largest of all such assets and it is the   *)
(* first listed with that volume; a volume read that fails does not stop   *)
(* the scan: an asset with a positive reading, before or after it, still   *)
(* gets a symbol returned.                                                 *)
(***************************************************************************)
C17_SelectsEarliestMax ==
    pc = "select_done" =>
      /\ symbol # NoSymbol =>
           \E i \in Inspected :
              /\ HasReading(i)
              /\ market.assets[i].symbol = symbol
              /\ \A j \in Inspected : HasReading(j) =>
                    /\ Volume(j) <= Volume(i)
                    /\ Volume(j) = Volume(i) => i <= j
      /\ ( /\ \E i \in Inspected : ReadFails(i)
           /\ \E j \in Inspected : HasReading(j) /\ Volume(j) > 0 ) =>
           symbol # NoSymbol

\* a failed read first, then two assets with the same largest volume: the
\* first of the two is returned
C17_Witness ==
    /\ pc = "select_done"
    /\ symbol = "BBB"
    /\ Len(market.assets) = 3
    /\ ReadFails(1)
    /\ HasReading(2) /\ HasReading(3)
    /\ Volume(2) = 2 /\ Volume(3) = 2

(***************************************************************************)
(* C18 as claimed: get_most_traded_stock returns None exactly when no      *)
(* inspected tradable, shortable asset yields a volume reading; any        *)
(* reading, of volume zero too, gets a symbol returned.                    *)
(***************************************************************************)
C18_SymbolIffAnyReading ==
    pc = "select_done" =>
      (symbol = NoSymbol <=> ~(\E i \in Inspected : HasReading(i)))

(***************************************************************************)
(* C18 as amended: get_most_traded_stock returns None exactly when no      *)
(* inspected tradable, shortable asset yields a volume reading greater     *)
(* than zero: without any reading, and also when every reading is zero.    *)
(***************************************************************************)
C18_SymbolIffPositiveReading ==
    pc = "select_done" =>
      (symbol = NoSymbol <=> ~(\E i \in Inspected : HasReading(i) /\ Volume(i) > 0))

\* readings there are, all of volume zero: None is returned
C18_Witness ==
    /\ pc = "select_done"
    /\ symbol = NoSymbol
    /\ \E i \in Inspected : HasReading(i)
    /\ \A i \in Inspected : HasReading(i) => Volume(i) = 0

(***************************************************************************)
(* C19: pot >= 0 in every reachable state (all prices are >= 0): a         *)
(* position costs quantity * entry_price <= pot and a loss is never more   *)
(* than that cost.                                                         *)
(***************************************************************************)
C19_PotNonNegative ==
    /\ pot >= 0
    /\ entry_price > 0 => quantity * entry_price <= acct0[1]
    /\ exit_type # "none" => result >= -(quantity * entry_price)

\* the whole pot lost: 20 shares bought at 50.00 and sold at 0.00
C19_Witness ==
    /\ CycleSucceeded
    /\ trades_completed = 1
    /\ pot = 0

(***************************************************************************)
(* C20: the exit tag agrees with the sign of the result: every monitored   *)
(* position has quantity >= 1 and stop_loss_price < entry_price <          *)
(* take_profit_price, a stop_loss outcome has result < 0 and a take_profit *)
(* outcome has result > 0.                                                 *)
(***************************************************************************)
C20_TagMatchesSign ==
    /\ pc \in {"monitor", "sl_sell", "sl_return", "tp_sell", "tp_return", "book"} =>
         /\ quantity >= 1
         /\ stop_loss_price < entry_price
         /\ entry_price < take_profit_price
    /\ exit_type = "stop_loss" => result < 0
    /\ exit_type = "take_profit" => result > 0

\* a loss followed by a gain
C20_Witness ==
    /\ CycleSucceeded
    /\ trades_completed = 2
    /\ exit_type = "take_profit" /\ result > 0
    /\ total_profit < result
====
